---- MODULE Spec2Model ----
(***************************************************************************)
(* The signaling gateway of mediasoup-demo: the worker pool and its        *)
(* round-robin cursor, the room registry with its serialized               *)
(* lookup-or-create path, the protoo connection-request handler and the    *)
(* Express application of room.js.                                         *)
(*                                                                         *)
(* Scheduling is Node's: one thread, run-to-completion event turns.  A     *)
(* continuation that is ready (the promise it awaits has settled) runs     *)
(* before the event loop takes the next I/O event, so the environment's    *)
(* events (connection requests, HTTP requests, Room.create settling, a     *)
(* Room closing) are taken only when no continuation of the queued unit is *)
(* ready: EventLoopIdle.                                                   *)
(***************************************************************************)
EXTENDS Integers, Sequences, FiniteSets, TLC

\* ---------------------------------------------------------------- bounds
MaxWorkers == 2
MaxRequests == 3
\* Connection requests served beside the REST application (SpecApp).
MaxAppRequests == 2

\* ------------------------------------------------------------ value space
\* JavaScript's undefined (an absent query key, an unset variable, an
\* out-of-range array read).
Undefined == "<undefined>"

\* Two room identifiers: the code treats a roomId only by equality.
RoomIds == {"room-A", "room-B"}

WorkerNames == <<"worker-1", "worker-2", "worker-3", "worker-4">>

\* What url.parse(...).query[key] can yield for the two keys.
RoomIdInputs == {Undefined, ""} \cup RoomIds
PeerIdInputs == {Undefined, "", "peer-1"}

\* An Error object: its name, its message and its status field (0: unset).
NoError == [name |-> "", message |-> "", status |-> 0]
ErrCreate == [name |-> "Error", message |-> "Room.create failed", status |-> 0]
ErrAccept == [name |-> "Error", message |-> "accept failed", status |-> 0]
ErrHandle == [name |-> "TypeError", message |-> "bad peerId", status |-> 0]

\* The words of the literal reason of line 199.
Reason400 == <<"Connection", "request", "without", "roomId", "and/or", "peerId">>

\* A connection request: what it asked, where its queued unit stands and
\* what the handler did with it.
NoConn ==
    [id |-> 0, roomId |-> Undefined, peerId |-> Undefined, pc |-> "none",
     runs |-> 0, creating |-> 0, room |-> 0, error |-> NoError,
     accepts |-> 0, handled |-> 0, rejects |-> <<>>, logged |-> <<>>]

\* An HTTP request: its route and :roomId, and what was answered.
NoHttp ==
    [state |-> "none", verb |-> "", path |-> "", roomId |-> Undefined,
     room |-> 0, called |-> "", error |-> NoError, status |-> 0,
     statusMessage |-> "", body |-> ""]

\* A periodic timer callback: which timer ticked, how the awaited query
\* settled and what the callback logged.
NoTick == [timer |-> "none", outcome |-> "none", logged |-> ""]

VARIABLES
    phase,                  \* position of run()
    numWorkers,             \* config.mediasoup.numWorkers
    mediasoupWorkers,       \* the pool, in creation order
    nextMediasoupWorkerIdx, \* the cursor
    expressApp,             \* room.js's module variable
    importedExpressApp,     \* the expressApp binding of part_000, line 59
    requestListener,        \* the listener httpsServer was created with
    rooms,                  \* the registry: roomId -> index into roomObjs, 0 absent
    roomObjs,               \* every Room.create call, in call order
    arrived,                \* connection requests received so far
    queue,                  \* the AwaitQueue's pending tasks, oldest first
    last,                   \* the connection request settled most recently
    http,                   \* the HTTP request received most recently
    exitTimers,             \* workers whose "died" handler armed the exit timer
    exited,                 \* the process has terminated
    lastTick                \* the periodic timer callback that ran most recently

vars == <<phase, numWorkers, mediasoupWorkers, nextMediasoupWorkerIdx,
          expressApp, importedExpressApp, requestListener, rooms, roomObjs,
          arrived, queue, last, http, exitTimers, exited, lastTick>>

startupVars == <<numWorkers, mediasoupWorkers, expressApp, importedExpressApp,
                 requestListener>>

opsVars == <<exitTimers, exited, lastTick>>

\* ------------------------------------------------------------- operators
\* JavaScript truthiness of a query value: undefined and "" are falsy.
Truthy(v) == v # Undefined /\ v # ""

InvalidIdsBoth(roomId, peerId) == ~Truthy(roomId) /\ ~Truthy(peerId)

\* if (!roomId || !peerId)
InvalidIds(roomId, peerId) == ~Truthy(roomId) \/ ~Truthy(peerId)

\* mediasoupWorkers[idx]: undefined when idx is out of range.
WorkerAt(workers, idx) ==
    IF idx >= 0 /\ idx < Len(workers) THEN workers[idx + 1] ELSE Undefined

AdvanceCursorNoWrap(idx, len) == idx + 1

AdvanceCursorLate(idx, len) == IF idx = len THEN 0 ELSE idx + 1

\* if (++nextMediasoupWorkerIdx === mediasoupWorkers.length) nextMediasoupWorkerIdx = 0
AdvanceCursor(idx, len) == IF idx + 1 = len THEN 0 ELSE idx + 1

\* rooms.set(roomId, room)
RoomsSet(m, roomId, i) == [m EXCEPT ![roomId] = i]

RoomsDeleteNothing(m, roomId) == m

\* rooms.delete(roomId)
RoomsDelete(m, roomId) == [m EXCEPT ![roomId] = 0]

\* rooms.get(roomId): 0 stands for undefined.
RoomsGet(m, roomId) == m[roomId]

QueueMayStartAny(q, k) == TRUE

\* The AwaitQueue runs the task at the head of its pending tasks, and the
\* next one only once that task has settled and has been shifted out.
QueueMayStart(q, k) == k = 1

QueuePushFront(q, task) == <<task>> \o q

\* queue.push(task): the task goes behind the pending ones.
QueuePush(q, task) == Append(q, task)

RemoveAtNothing(q, k) == q

\* The queue without its k-th task.
RemoveAt(q, k) == SubSeq(q, 1, k - 1) \o SubSeq(q, k + 1, Len(q))

\* A continuation is ready to run: a task the queue may start, or a unit
\* whose awaited promise has settled.
Ready(k) ==
    \/ queue[k].pc = "pending" /\ QueueMayStart(queue, k)
    \/ queue[k].pc \in {"created", "resolved", "threw"}

EventLoopAlwaysIdle == TRUE

\* No continuation is ready: the event loop takes the next I/O event.
EventLoopIdle == \A k \in 1..Len(queue) : ~Ready(k)

\* ------------------------------------------------------------------ Init
Init ==
    /\ phase = "workers"
    /\ numWorkers \in 1..MaxWorkers
    /\ mediasoupWorkers = <<>>
    /\ nextMediasoupWorkerIdx = 0
    /\ expressApp = Undefined
    /\ importedExpressApp = Undefined
    /\ requestListener = Undefined
    /\ rooms = [id \in RoomIds |-> 0]
    /\ roomObjs = <<>>
    /\ arrived = 0
    /\ queue = <<>>
    /\ last = NoConn
    /\ http = NoHttp
    /\ exitTimers = {}
    /\ exited = FALSE
    /\ lastTick = NoTick

\* --------------------------------------------------------------- startup
gatewayVars == <<nextMediasoupWorkerIdx, rooms, roomObjs, arrived, queue,
                 last, http>>

\* One turn of the loop of runMediasoupWorkers: createWorker resolved.
CreateWorker ==
    /\ ~exited
    /\ phase = "workers"
    /\ Len(mediasoupWorkers) < numWorkers
    /\ mediasoupWorkers' =
           Append(mediasoupWorkers, WorkerNames[Len(mediasoupWorkers) + 1])
    /\ UNCHANGED <<opsVars, phase, numWorkers, expressApp, importedExpressApp,
                   requestListener, gatewayVars>>

\* A rejected promise that nothing handles.  What follows is the runtime's
\* choice (node's --unhandled-rejections mode, whose default depends on the
\* node version): the process is terminated, or a warning is printed and
\* the process goes on.
UnhandledRejectionFatal == {TRUE, FALSE}

\* createWorker rejected: runMediasoupWorkers and run() reject, and the
\* promise of run() (line 83) has no handler.
CreateWorkerFails ==
    /\ ~exited
    /\ phase = "workers"
    /\ Len(mediasoupWorkers) < numWorkers
    /\ phase' = "aborted"
    /\ exited' \in UnhandledRejectionFatal
    /\ UNCHANGED <<exitTimers, lastTick, startupVars, gatewayVars>>

\* createExpressApp(): assigns room.js's own variable; the binding that
\* part_000 took from module.exports at require time is not touched.
CreateExpressApp ==
    /\ ~exited
    /\ phase = "workers"
    /\ Len(mediasoupWorkers) = numWorkers
    /\ expressApp' = "app"
    /\ phase' = "https"
    /\ UNCHANGED <<opsVars, numWorkers, mediasoupWorkers, importedExpressApp,
                   requestListener, gatewayVars>>

\* httpsServer = https.createServer(tls, expressApp); listen.
RunHttpsServer ==
    /\ ~exited
    /\ phase = "https"
    /\ requestListener' = importedExpressApp
    /\ phase' = "protoo"
    /\ UNCHANGED <<opsVars, numWorkers, mediasoupWorkers, expressApp,
                   importedExpressApp, gatewayVars>>

RunProtooWebSocketServer ==
    /\ ~exited
    /\ phase = "protoo"
    /\ phase' = "running"
    /\ UNCHANGED <<opsVars, startupVars, gatewayVars>>

\* ------------------------------------------------- workers and timers
WorkerDiedReplaces(i) ==
    /\ ~exited
    /\ i \in 1..Len(mediasoupWorkers)
    /\ mediasoupWorkers[i] \notin exitTimers
    /\ mediasoupWorkers' =
           [mediasoupWorkers EXCEPT ![i] = WorkerNames[Len(WorkerNames)]]
    /\ UNCHANGED <<opsVars, phase, numWorkers, expressApp,
                   importedExpressApp, requestListener, gatewayVars>>

\* A worker emits "died": the handler logs and arms
\* setTimeout(() => process.exit(1), 2000).  The pool keeps the worker.
WorkerDied(i) ==
    /\ ~exited
    /\ EventLoopIdle
    /\ i \in 1..Len(mediasoupWorkers)
    /\ mediasoupWorkers[i] \notin exitTimers
    /\ exitTimers' = exitTimers \cup {mediasoupWorkers[i]}
    /\ UNCHANGED <<exited, lastTick, phase, startupVars, gatewayVars>>

\* An exit timer fires: process.exit(1).
ExitTimerFires ==
    /\ ~exited
    /\ EventLoopIdle
    /\ exitTimers # {}
    /\ exited' = TRUE
    /\ UNCHANGED <<exitTimers, lastTick, phase, startupVars, gatewayVars>>

\* The resource-usage interval of a pool worker ticks and the awaited
\* worker.getResourceUsage() settles.  Resolved: logger.info.  Rejected: the
\* async callback has no try/catch and setInterval drops the promise it
\* returns, so nothing is logged and the rejection is unhandled.
TelemetryTick(i, outcome) ==
    /\ ~exited
    /\ EventLoopIdle
    /\ i \in 1..Len(mediasoupWorkers)
    /\ IF outcome = "resolved"
       THEN /\ lastTick' = [timer |-> "usage", outcome |-> "resolved",
                            logged |-> "resource usage"]
            /\ exited' = exited
       ELSE /\ lastTick' = [timer |-> "usage", outcome |-> "rejected",
                            logged |-> ""]
            /\ exited' \in UnhandledRejectionFatal
    /\ UNCHANGED <<exitTimers, phase, startupVars, gatewayVars>>

\* The interval of run() ticks: room.logStatus() for every registry entry.
StatusTick ==
    /\ ~exited
    /\ EventLoopIdle
    /\ phase = "running"
    /\ lastTick' = [timer |-> "status", outcome |-> "done",
                    logged |-> "rooms status"]
    /\ UNCHANGED <<exitTimers, exited, phase, startupVars, gatewayVars>>

\* --------------------------------------------------- connection requests
NewConn(id, roomId, peerId) ==
    [NoConn EXCEPT !.id = id, !.roomId = roomId, !.peerId = peerId]

\* reject(400, "Connection request without roomId and/or peerId")
Reject400 == [status |-> 400, reason |-> Reason400, error |-> NoError]

\* The "connectionrequest" handler.
ConnectionRequest(roomId, peerId) ==
    /\ ~exited
    /\ phase = "running"
    /\ EventLoopIdle
    /\ arrived < MaxRequests
    /\ arrived' = arrived + 1
    /\ IF InvalidIds(roomId, peerId)
       THEN /\ last' = [NewConn(arrived + 1, roomId, peerId) EXCEPT
                           !.pc = "refused",
                           !.rejects = <<Reject400>>]
            /\ queue' = queue
       ELSE /\ queue' = QueuePush(queue,
                   [NewConn(arrived + 1, roomId, peerId) EXCEPT
                       !.pc = "pending"])
            /\ last' = last
    /\ UNCHANGED <<opsVars, http, phase, startupVars, nextMediasoupWorkerIdx, rooms,
                   roomObjs>>

UnitStartInsertsEarly(k) ==
    /\ ~exited
    /\ k \in 1..Len(queue)
    /\ queue[k].pc = "pending"
    /\ QueueMayStart(queue, k)
    /\ LET found == RoomsGet(rooms, queue[k].roomId)
       IN  IF found # 0
           THEN /\ queue' = [queue EXCEPT ![k].pc = "resolved",
                                          ![k].runs = @ + 1,
                                          ![k].room = found]
                /\ UNCHANGED <<nextMediasoupWorkerIdx, roomObjs, rooms>>
           ELSE /\ queue' = [queue EXCEPT ![k].pc = "creating",
                                          ![k].runs = @ + 1,
                                          ![k].creating = Len(roomObjs) + 1]
                /\ roomObjs' = Append(roomObjs,
                       [roomId |-> queue[k].roomId,
                        worker |-> WorkerAt(mediasoupWorkers,
                                            nextMediasoupWorkerIdx),
                        state |-> "constructing",
                        closeHandler |-> FALSE])
                /\ rooms' = RoomsSet(rooms, queue[k].roomId,
                                     Len(roomObjs) + 1)
                /\ nextMediasoupWorkerIdx' =
                       AdvanceCursor(nextMediasoupWorkerIdx,
                                     Len(mediasoupWorkers))
    /\ UNCHANGED <<opsVars, http, phase, startupVars, arrived, last>>

\* The queue starts a task: getOrCreateRoom up to its await.
UnitStart(k) ==
    /\ ~exited
    /\ k \in 1..Len(queue)
    /\ queue[k].pc = "pending"
    /\ QueueMayStart(queue, k)
    /\ LET found == RoomsGet(rooms, queue[k].roomId)
       IN  IF found # 0
           THEN /\ queue' = [queue EXCEPT ![k].pc = "resolved",
                                          ![k].runs = @ + 1,
                                          ![k].room = found]
                /\ UNCHANGED <<nextMediasoupWorkerIdx, roomObjs>>
           ELSE /\ queue' = [queue EXCEPT ![k].pc = "creating",
                                          ![k].runs = @ + 1,
                                          ![k].creating = Len(roomObjs) + 1]
                /\ roomObjs' = Append(roomObjs,
                       [roomId |-> queue[k].roomId,
                        worker |-> WorkerAt(mediasoupWorkers,
                                            nextMediasoupWorkerIdx),
                        state |-> "constructing",
                        closeHandler |-> FALSE])
                /\ nextMediasoupWorkerIdx' =
                       AdvanceCursor(nextMediasoupWorkerIdx,
                                     Len(mediasoupWorkers))
    /\ UNCHANGED <<opsVars, http, phase, startupVars, rooms, arrived, last>>

\* Room.create's promise resolves.
RoomCreateResolves(k) ==
    /\ ~exited
    /\ k \in 1..Len(queue)
    /\ queue[k].pc = "creating"
    /\ roomObjs' = [roomObjs EXCEPT ![queue[k].creating].state = "live"]
    /\ queue' = [queue EXCEPT ![k].pc = "created"]
    /\ UNCHANGED <<opsVars, http, phase, startupVars, nextMediasoupWorkerIdx, rooms,
                   arrived, last>>

RoomCreateRejectsKeepsEntry(k) ==
    /\ ~exited
    /\ k \in 1..Len(queue)
    /\ queue[k].pc = "creating"
    /\ roomObjs' = [roomObjs EXCEPT ![queue[k].creating].state = "failed"]
    /\ queue' = [queue EXCEPT ![k].pc = "threw", ![k].error = ErrCreate]
    /\ rooms' = RoomsSet(rooms, queue[k].roomId, queue[k].creating)
    /\ UNCHANGED <<opsVars, http, phase, startupVars,
                   nextMediasoupWorkerIdx, arrived, last>>

\* Room.create's promise rejects.
RoomCreateRejects(k) ==
    /\ ~exited
    /\ k \in 1..Len(queue)
    /\ queue[k].pc = "creating"
    /\ roomObjs' = [roomObjs EXCEPT ![queue[k].creating].state = "failed"]
    /\ queue' = [queue EXCEPT ![k].pc = "threw", ![k].error = ErrCreate]
    /\ UNCHANGED <<opsVars, http, phase, startupVars, nextMediasoupWorkerIdx, rooms,
                   arrived, last>>

\* rooms.set(roomId, room); room.on("close", ...); return room.
InsertRoom(k) ==
    /\ ~exited
    /\ k \in 1..Len(queue)
    /\ queue[k].pc = "created"
    /\ rooms' = RoomsSet(rooms, queue[k].roomId, queue[k].creating)
    /\ roomObjs' = [roomObjs EXCEPT ![queue[k].creating].closeHandler = TRUE]
    /\ queue' = [queue EXCEPT ![k].pc = "resolved",
                              ![k].room = queue[k].creating]
    /\ UNCHANGED <<opsVars, http, phase, startupVars, nextMediasoupWorkerIdx, arrived,
                   last>>

\* accept(); room.handleProtooConnection(...): either may throw.  When
\* neither does, the task resolves and the queue shifts it out.
AcceptAndHandle(k, outcome) ==
    /\ ~exited
    /\ k \in 1..Len(queue)
    /\ queue[k].pc = "resolved"
    /\ CASE outcome = "ok" ->
              /\ last' = [queue[k] EXCEPT !.pc = "done",
                                          !.accepts = @ + 1,
                                          !.handled = queue[k].room]
              /\ queue' = RemoveAt(queue, k)
         [] outcome = "acceptThrows" ->
              /\ queue' = [queue EXCEPT ![k].pc = "threw",
                                        ![k].error = ErrAccept]
              /\ last' = last
         [] outcome = "handleThrows" ->
              /\ queue' = [queue EXCEPT ![k].pc = "threw",
                                        ![k].error = ErrHandle,
                                        ![k].accepts = @ + 1,
                                        ![k].handled = queue[k].room]
              /\ last' = last
    /\ UNCHANGED <<opsVars, http, phase, startupVars, nextMediasoupWorkerIdx, rooms,
                   roomObjs, arrived>>

RejectArgsGeneric(error) ==
    [status |-> 500, reason |-> <<>>, error |-> NoError]

\* reject(error)
RejectArgs(error) == [status |-> 0, reason |-> <<>>, error |-> error]

UnitCatchDeletes(k) ==
    /\ ~exited
    /\ k \in 1..Len(queue)
    /\ queue[k].pc = "threw"
    /\ last' = [queue[k] EXCEPT
                   !.pc = "done",
                   !.logged = Append(@, queue[k].error),
                   !.rejects = Append(@, RejectArgs(queue[k].error))]
    /\ queue' = RemoveAt(queue, k)
    /\ rooms' = RoomsDelete(rooms, queue[k].roomId)
    /\ UNCHANGED <<opsVars, http, phase, startupVars,
                   nextMediasoupWorkerIdx, roomObjs, arrived>>

\* .catch((error) => { logger.error(...); reject(error); }); the queue
\* shifts the task out.
UnitCatch(k) ==
    /\ ~exited
    /\ k \in 1..Len(queue)
    /\ queue[k].pc = "threw"
    /\ last' = [queue[k] EXCEPT
                   !.pc = "done",
                   !.logged = Append(@, queue[k].error),
                   !.rejects = Append(@, RejectArgs(queue[k].error))]
    /\ queue' = RemoveAt(queue, k)
    /\ UNCHANGED <<opsVars, http, phase, startupVars, nextMediasoupWorkerIdx, rooms,
                   roomObjs, arrived>>

\* A Room emits "close": the handler of line 259, when registered, runs.
RoomClose(i) ==
    /\ ~exited
    /\ EventLoopIdle
    /\ i \in 1..Len(roomObjs)
    /\ roomObjs[i].state = "live"
    /\ roomObjs' = [roomObjs EXCEPT ![i].state = "closed"]
    /\ rooms' = IF roomObjs[i].closeHandler
                THEN RoomsDelete(rooms, roomObjs[i].roomId)
                ELSE rooms
    /\ UNCHANGED <<opsVars, http, phase, startupVars, nextMediasoupWorkerIdx, arrived,
                   queue, last>>

Units ==
    \E k \in 1..MaxRequests :
        \/ UnitStart(k)
        \/ RoomCreateResolves(k)
        \/ RoomCreateRejects(k)
        \/ InsertRoom(k)
        \/ \E outcome \in {"ok", "acceptThrows", "handleThrows"} :
              AcceptAndHandle(k, outcome)
        \/ UnitCatch(k)

Startup ==
    \/ CreateWorker
    \/ CreateWorkerFails
    \/ CreateExpressApp
    \/ RunHttpsServer
    \/ RunProtooWebSocketServer

Gateway ==
    \/ Startup
    \/ \E roomId \in RoomIdInputs, peerId \in PeerIdInputs :
          ConnectionRequest(roomId, peerId)
    \/ Units
    \/ \E i \in 1..MaxRequests : RoomClose(i)

\* ------------------------------------------------ the Express application
Base == "/rooms/:roomId/broadcasters/:broadcasterId/transports"

\* The routes of createExpressApp, each with the Room method it delegates
\* to and whether the handler awaits it.
Routes ==
    { [verb |-> "GET", path |-> "/rooms/:roomId",
       delegate |-> "getRouterRtpCapabilities", async |-> FALSE],
      [verb |-> "POST", path |-> "/rooms/:roomId/broadcasters",
       delegate |-> "createBroadcaster", async |-> TRUE],
      [verb |-> "DELETE", path |-> "/rooms/:roomId/broadcasters/:broadcasterId",
       delegate |-> "deleteBroadcaster", async |-> FALSE],
      [verb |-> "POST", path |-> Base,
       delegate |-> "createBroadcasterTransport", async |-> TRUE],
      [verb |-> "POST", path |-> Base \o "/:transportId/connect",
       delegate |-> "connectBroadcasterTransport", async |-> TRUE],
      [verb |-> "POST", path |-> Base \o "/:transportId/producers",
       delegate |-> "createBroadcasterProducer", async |-> TRUE],
      [verb |-> "POST", path |-> Base \o "/:transportId/consume",
       delegate |-> "createBroadcasterConsumer", async |-> TRUE],
      [verb |-> "POST", path |-> Base \o "/:transportId/consume/data",
       delegate |-> "createBroadcasterDataConsumer", async |-> TRUE],
      [verb |-> "POST", path |-> Base \o "/:transportId/produce/data",
       delegate |-> "createBroadcasterDataProducer", async |-> TRUE] }

\* The errors a Room method is taken to throw or reject with.
DelegateErrors ==
    { [name |-> "Error", message |-> "boom", status |-> 0],
      [name |-> "TypeError", message |-> "not an object", status |-> 0],
      [name |-> "Error", message |-> "forbidden", status |-> 403],
      [name |-> "TypeError", message |-> "conflict", status |-> 409] }

\* new Error(`room with id "${roomId}" not found`) with status 404
NotFound(roomId) ==
    [name |-> "Error",
     message |-> "room with id \"" \o roomId \o "\" not found",
     status |-> 404]

\* rooms.has(roomId)
RoomsHas(m, roomId) == m[roomId] # 0

ErrorStatusTypeFirst(error) ==
    IF error.name = "TypeError" THEN 400
    ELSE IF error.status # 0 THEN error.status ELSE 500

\* error.status || (error.name === "TypeError" ? 400 : 500)
ErrorStatus(error) ==
    IF error.status # 0 THEN error.status
    ELSE IF error.name = "TypeError" THEN 400 ELSE 500

StringOfErrorMessage(error) == error.message

\* String(error): Error.prototype.toString
StringOfError(error) ==
    IF error.name = "" THEN error.message
    ELSE IF error.message = "" THEN error.name
    ELSE error.name \o ": " \o error.message

\* The error handler of lines 248-259, given an error.
ErrorHandler(req, error) ==
    [req EXCEPT !.state = "responded",
                !.error = error,
                !.status = ErrorStatus(error),
                !.statusMessage = error.message,
                !.body = StringOfError(error)]

\* res.status(200).json(data), or the text of the DELETE route.
Respond200(req) ==
    [req EXCEPT !.state = "responded",
                !.status = 200,
                !.body = IF req.called = "deleteBroadcaster"
                         THEN "broadcaster deleted" ELSE "<json>"]

\* The application called with a request: the param handler of :roomId,
\* then the route's handler up to its await or its response.
AppHandle(route, roomId) ==
    LET req == [NoHttp EXCEPT !.verb = route.verb, !.path = route.path,
                              !.roomId = roomId]
    IN  IF ~RoomsHas(rooms, roomId)
        THEN http' = ErrorHandler(req, NotFound(roomId))
        ELSE LET found == [req EXCEPT !.room = rooms[roomId],
                                      !.called = route.delegate]
             IN  IF route.async
                 THEN http' = [found EXCEPT !.state = "awaiting"]
                 ELSE \E outcome \in {NoError} \cup DelegateErrors :
                         http' = IF outcome = NoError
                                 THEN Respond200(found)
                                 ELSE ErrorHandler(found, outcome)

\* The HTTPS server receives a request for a route scoped by roomId and
\* emits "request" to the listener it was created with.  With no listener
\* nothing routes the request: it is never answered, and of the request
\* only the roomId is kept.
HttpRequest(roomId) ==
    /\ ~exited
    /\ phase \in {"protoo", "running"}
    /\ EventLoopIdle
    /\ http.state # "awaiting"
    /\ IF requestListener = "app"
       THEN \E route \in Routes : AppHandle(route, roomId)
       ELSE http' = [NoHttp EXCEPT !.state = "unanswered",
                                   !.roomId = roomId]
    /\ UNCHANGED <<opsVars, phase, startupVars, nextMediasoupWorkerIdx, rooms,
                   roomObjs, arrived, queue, last>>

\* The application built by createExpressApp called with a request.
AppRequest(route, roomId) ==
    /\ ~exited
    /\ expressApp = "app"
    /\ EventLoopIdle
    /\ http.state # "awaiting"
    /\ AppHandle(route, roomId)
    /\ UNCHANGED <<opsVars, phase, startupVars, nextMediasoupWorkerIdx, rooms,
                   roomObjs, arrived, queue, last>>

\* The awaited Room method settles: res.status(200).json(data), or
\* next(error) and the error handler.
AppDelegateSettles(outcome) ==
    /\ ~exited
    /\ http.state = "awaiting"
    /\ EventLoopIdle
    /\ http' = IF outcome = NoError
               THEN Respond200(http)
               ELSE ErrorHandler(http, outcome)
    /\ UNCHANGED <<opsVars, phase, startupVars, nextMediasoupWorkerIdx, rooms,
                   roomObjs, arrived, queue, last>>

\* ------------------------------------------------------- specifications
\* The process as part_000 starts it.
Next ==
    \/ Gateway
    \/ \E roomId \in RoomIds : HttpRequest(roomId)

Spec == Init /\ [][Next]_vars

\* The application of room.js called with requests, beside the gateway
\* serving connection requests that carry both identifiers.
GatewayValid ==
    \/ Startup
    \/ \E roomId \in RoomIds :
          arrived < MaxAppRequests /\ ConnectionRequest(roomId, "peer-1")
    \/ Units
    \/ \E i \in 1..MaxRequests : RoomClose(i)

NextApp ==
    \/ GatewayValid
    \/ \E route \in Routes, roomId \in RoomIds : AppRequest(route, roomId)
    \/ \E outcome \in {NoError} \cup DelegateErrors :
          AppDelegateSettles(outcome)

SpecApp == Init /\ [][NextApp]_vars

\* The continuations of the queued unit that wait for nothing outside the
\* process: node runs them as soon as they are ready.
Continuations ==
    \E k \in 1..MaxRequests :
        \/ UnitStart(k)
        \/ InsertRoom(k)
        \/ \E outcome \in {"ok", "acceptThrows", "handleThrows"} :
              AcceptAndHandle(k, outcome)
        \/ UnitCatch(k)

\* The process with its workers dying and its periodic timers ticking,
\* beside the gateway serving connection requests that carry both
\* identifiers.  Ready continuations run, and an armed timer fires.
NextOps ==
    \/ GatewayValid
    \/ \E i \in 1..MaxWorkers : WorkerDied(i)
    \/ ExitTimerFires
    \/ \E i \in 1..MaxWorkers, outcome \in {"resolved", "rejected"} :
          TelemetryTick(i, outcome)
    \/ StatusTick

SpecOps ==
    /\ Init
    /\ [][NextOps]_vars
    /\ WF_vars(Continuations)
    /\ WF_vars(ExitTimerFires)

\* Room.create settles, one way or the other.
RoomCreateSettles ==
    \E k \in 1..MaxRequests : RoomCreateResolves(k) \/ RoomCreateRejects(k)

\* SpecOps with every Room construction eventually settling.
SpecLive == SpecOps /\ WF_vars(RoomCreateSettles)

\* The process with all of its event sources: connection requests of every
\* shape, HTTP requests, Rooms closing, workers dying and the timers.
NextAll ==
    \/ Startup
    \/ \E roomId \in RoomIdInputs, peerId \in PeerIdInputs :
          arrived < MaxAppRequests /\ ConnectionRequest(roomId, peerId)
    \/ Units
    \/ \E i \in 1..MaxRequests : RoomClose(i)
    \/ \E roomId \in RoomIds : HttpRequest(roomId)
    \/ \E i \in 1..MaxWorkers : WorkerDied(i)
    \/ ExitTimerFires
    \/ \E i \in 1..MaxWorkers, outcome \in {"resolved", "rejected"} :
          TelemetryTick(i, outcome)
    \/ StatusTick

SpecAll == Init /\ [][NextAll]_vars

\* ---------------------------------------------------------------- claims
\* The connection requests the state holds: the queued ones and the one
\* settled most recently.
Conns == {queue[k] : k \in 1..Len(queue)} \cup {last}

RoomsOf(roomId, states) ==
    {i \in 1..Len(roomObjs) :
        roomObjs[i].roomId = roomId /\ roomObjs[i].state \in states}

Range(seq) == {seq[i] : i \in 1..Len(seq)}

\* C1: connection requests for the same roomId that pile up in the queue
\* lead to one Room construction and are all handed that one Room: at any
\* time at most one Room per roomId is live or under construction, and as
\* long as no Room of a roomId has closed, all requests for that roomId
\* that were handed a Room were handed the same one.
C1_SingleRoomPerId ==
    /\ \A roomId \in RoomIds :
          Cardinality(RoomsOf(roomId, {"constructing", "live"})) <= 1
    /\ \A c1 \in Conns, c2 \in Conns :
          ( /\ c1.room # 0
            /\ c2.room # 0
            /\ c1.roomId = c2.roomId
            /\ RoomsOf(c1.roomId, {"closed"}) = {} )
          => c1.room = c2.room

\* Three requests for room-A arrived while the first one's Room was under
\* construction: the first has been accepted into Room 1, the second holds
\* the same Room, the third waits; one Room was constructed in all.
C1_Witness ==
    /\ Len(queue) = 2
    /\ last.id = 1 /\ last.roomId = "room-A" /\ last.handled = 1
    /\ queue[1].id = 2 /\ queue[1].roomId = "room-A" /\ queue[1].room = 1
    /\ queue[2].id = 3 /\ queue[2].roomId = "room-A"
    /\ Len(roomObjs) = 1

\* C2: the i-th call of getMediasoupWorker returns the worker at pool
\* position ((i - 1) mod N) + 1: N consecutive calls return each worker
\* once, in pool order, and the (N+1)-th returns the first again.
C2_RoundRobin ==
    phase = "running" =>
        \A i \in 1..Len(roomObjs) :
            roomObjs[i].worker =
                mediasoupWorkers[((i - 1) % Len(mediasoupWorkers)) + 1]

\* With two workers, a third call returned the first worker again.
C2_Witness ==
    /\ Len(mediasoupWorkers) = 2
    /\ Len(roomObjs) = 3
    /\ roomObjs[1].worker = mediasoupWorkers[1]
    /\ roomObjs[2].worker = mediasoupWorkers[2]
    /\ roomObjs[3].worker = mediasoupWorkers[1]

C4_ClosedRoomLeavesRegistry ==
    /\ \A i \in 1..Len(roomObjs) :
          roomObjs[i].state = "closed" => rooms[roomObjs[i].roomId] # i
    /\ \A k \in 1..Len(queue) :
          queue[k].pc = "resolved" => roomObjs[queue[k].room].state = "live"

\* Room 1 of room-A has closed, and a later unit for room-A holds a newly
\* constructed Room 2, now the registry's entry.
C4_Witness ==
    /\ Len(roomObjs) >= 2
    /\ roomObjs[1].roomId = "room-A" /\ roomObjs[1].state = "closed"
    /\ roomObjs[2].roomId = "room-A" /\ roomObjs[2].state = "live"
    /\ rooms["room-A"] = 2
    /\ queue # <<>> /\ queue[1].pc = "resolved" /\ queue[1].room = 2

MissingId(c) == c.roomId \in {Undefined, ""} \/ c.peerId \in {Undefined, ""}

\* The connection request that arrives in a step.
Arriving == IF Len(queue') > Len(queue) THEN queue'[Len(queue')] ELSE last'

\* C5: a connection request whose roomId or peerId is missing or empty is
\* rejected once, with status 400 and a reason naming both fields; its
\* arrival queues nothing and leaves the registry, the Rooms and the
\* cursor as they were, and it is never run or accepted.
C5_MissingIdRejected ==
    [][ /\ arrived' # arrived =>
              /\ Arriving.id = arrived'
              /\ MissingId(Arriving) =>
                    /\ Arriving.rejects =
                           <<[status |-> 400, reason |-> Reason400,
                              error |-> NoError]>>
                    /\ {"roomId", "peerId"} \subseteq Range(Reason400)
                    /\ UNCHANGED <<queue, rooms, roomObjs,
                                   nextMediasoupWorkerIdx>>
        /\ \A c \in Conns' :
              MissingId(c) /\ c.id # 0 =>
                  c.pc = "refused" /\ c.runs = 0 /\ c.accepts = 0
      ]_vars

\* A request with a peerId and no roomId was refused while a unit was
\* waiting for Room.create.
C5_Witness ==
    /\ last.pc = "refused"
    /\ last.roomId = Undefined /\ last.peerId = "peer-1"
    /\ last.rejects = <<Reject400>>
    /\ Len(queue) = 1 /\ queue[1].pc = "creating"

\* C6: a request for a route scoped by :roomId whose roomId is not in the
\* registry when it arrives is answered with 404, no Room method is called
\* and no Room is created.
C6_UnknownRoom404 ==
    [][ ( /\ http' # http
          /\ http.state # "awaiting"
          /\ rooms[http'.roomId] = 0 )
        => /\ http'.state = "responded"
           /\ http'.status = 404
           /\ http'.called = ""
           /\ UNCHANGED <<rooms, roomObjs>>
      ]_vars

\* C7: the status of an error response is the error's status field when
\* set, otherwise 400 for a TypeError, otherwise 500.
C7_ErrorStatus ==
    (http.state = "responded" /\ http.error # NoError) =>
        /\ http.error.status # 0 => http.status = http.error.status
        /\ (http.error.status = 0 /\ http.error.name = "TypeError")
              => http.status = 400
        /\ (http.error.status = 0 /\ http.error.name # "TypeError")
              => http.status = 500

\* A Room method rejected with a TypeError that carries status 409: the
\* response has status 409.
C7_Witness ==
    /\ http.state = "responded"
    /\ http.called = "createBroadcasterTransport"
    /\ http.error = [name |-> "TypeError", message |-> "conflict",
                     status |-> 409]
    /\ http.status = 409

\* A Room method failed with a plain error.
PlainDelegateError ==
    /\ http.state = "responded"
    /\ http.called # ""
    /\ http.error # NoError
    /\ http.error.status = 0
    /\ http.error.name # "TypeError"

C9_RestSeesWholeRooms ==
    [][ http' # http =>
          /\ UNCHANGED <<rooms, roomObjs, queue>>
          /\ http'.room # 0 =>
                /\ roomObjs[http'.room].state \in {"live", "closed"}
                /\ roomObjs[http'.room].closeHandler
                /\ http.state # "awaiting" =>
                      /\ roomObjs[http'.room].state = "live"
                      /\ rooms[http'.roomId] = http'.room
      ]_vars

\* A request for room-A arrived while a unit was waiting for Room.create
\* of room-A, and was answered 404.
C9_Witness ==
    /\ http.state = "responded"
    /\ http.roomId = "room-A"
    /\ http.status = 404
    /\ Len(queue) >= 1
    /\ queue[1].pc = "creating"
    /\ queue[1].roomId = "room-A"

\* C10: a unit that threw is settled by one reject call that carries the
\* thrown error, the error is logged once, and the unit has run once; no
\* unit runs twice and a settled request is not queued again.
C10_ErrorRejects ==
    /\ (last.pc = "done" /\ last.error # NoError) =>
          /\ last.rejects =
                 <<[status |-> 0, reason |-> <<>>, error |-> last.error]>>
          /\ last.logged = <<last.error>>
          /\ last.runs = 1
    /\ \A k \in 1..Len(queue) :
          /\ queue[k].runs <= 1
          /\ queue[k].id # last.id
          /\ queue[k].rejects = <<>>

\* Room.create failed for request 1: it was rejected with that error, and
\* the queue has started the next unit.
C10_Witness ==
    /\ last.id = 1
    /\ last.pc = "done"
    /\ last.error = ErrCreate
    /\ last.rejects = <<RejectArgs(ErrCreate)>>
    /\ last.logged = <<ErrCreate>>
    /\ Len(queue) >= 1
    /\ queue[1].runs = 1

\* The units in progress: started and not yet settled.
InProgress == {k \in 1..Len(queue) : queue[k].pc # "pending"}

\* C11: the queued units stand in arrival order, only the unit at the head
\* of the queue is in progress (so at most one is, its awaited Room
\* construction included), every unit that has started arrived before
\* every unit still pending, and the request settled most recently by its
\* unit arrived before every queued one.
C11_FifoOneAtATime ==
    /\ \A j \in 1..Len(queue), k \in 1..Len(queue) :
          j < k => queue[j].id < queue[k].id
    /\ InProgress \subseteq {1}
    /\ \A j \in 1..Len(queue), k \in 1..Len(queue) :
          (queue[j].runs >= 1 /\ queue[k].pc = "pending")
              => queue[j].id < queue[k].id
    /\ last.pc = "done" => \A k \in 1..Len(queue) : last.id < queue[k].id

\* Request 1 (room-A) has been settled, the unit of request 2 (room-B)
\* awaits its Room construction and request 3 (room-A) waits behind it.
C11_Witness ==
    /\ last.id = 1 /\ last.pc = "done" /\ last.roomId = "room-A"
    /\ Len(queue) = 2
    /\ queue[1].id = 2 /\ queue[1].roomId = "room-B"
    /\ queue[1].pc = "creating"
    /\ queue[2].id = 3 /\ queue[2].roomId = "room-A"
    /\ queue[2].pc = "pending"

\* C12: once a worker has reported its death the process eventually
\* terminates; the pool never loses or replaces a worker (it only grows,
\* during startup), and it does not change once startup has filled it.
C12_WorkerDeathIsFatal ==
    /\ (exitTimers # {}) ~> exited
    /\ [][ /\ \A i \in 1..Len(mediasoupWorkers) :
                 /\ i <= Len(mediasoupWorkers')
                 /\ mediasoupWorkers'[i] = mediasoupWorkers[i]
           /\ phase # "workers" => mediasoupWorkers' = mediasoupWorkers
         ]_vars

\* The first of two workers died while the gateway was running with a unit
\* awaiting its Room construction, and the process has terminated with the
\* pool as startup left it.
C12_Witness ==
    /\ exited
    /\ phase = "running"
    /\ exitTimers = {"worker-1"}
    /\ mediasoupWorkers = <<"worker-1", "worker-2">>
    /\ Len(queue) >= 1 /\ queue[1].pc = "creating"

\* The gateway never operates with a partial pool: the later startup steps
\* run only with the configured number of workers, and after a failed
\* worker creation no server exists and no request was ever received.
NoPartialPoolOperation ==
    /\ phase \in {"https", "protoo", "running"}
          => Len(mediasoupWorkers) = numWorkers
    /\ phase = "aborted" =>
          /\ Len(mediasoupWorkers) < numWorkers
          /\ expressApp = Undefined
          /\ arrived = 0 /\ queue = <<>> /\ last = NoConn
          /\ http = NoHttp

\* C13: startup fills the pool before anything else starts; when a worker
\* cannot be created the process has terminated, and the gateway never
\* operates with a partial pool.
C13_StartupAllOrNothing ==
    /\ NoPartialPoolOperation
    /\ phase = "aborted" => exited

\* C14: a tick of the resource-usage timer whose query fails logs the
\* failure and leaves the process running.
C14_TelemetryFailureNonFatal ==
    [][ (lastTick' # lastTick /\ lastTick'.outcome = "rejected")
        => /\ lastTick'.logged # ""
           /\ exited' = FALSE
      ]_vars

\* C15: once runHttpsServer has run, the Express application exists and is
\* the request listener of the HTTPS server, and no request is left
\* unanswered.
C15_ListenerIsExpressApp ==
    /\ phase \in {"protoo", "running"} =>
          /\ expressApp = "app"
          /\ requestListener = expressApp
    /\ http.state # "unanswered"

\* A step in which the queued lookup-or-create path inserts the Room it
\* has constructed.
QueuedInsertion ==
    \E k \in 1..Len(queue) :
        /\ queue[k].pc = "created"
        /\ queue'[k].pc = "resolved"
        /\ rooms' = [rooms EXCEPT ![queue[k].roomId] = queue[k].creating]

\* A step in which a Room closes and its close handler deletes its entry.
CloseDeletion ==
    \E i \in 1..Len(roomObjs) :
        /\ roomObjs[i].state = "live"
        /\ roomObjs'[i].state = "closed"
        /\ roomObjs[i].closeHandler
        /\ rooms' = [rooms EXCEPT ![roomObjs[i].roomId] = 0]

\* C16: a step that changes the registry is an insertion by the queued
\* lookup-or-create path or a deletion by a Room's close handler, and an
\* entry disappears only by the latter; the arrival of a connection
\* request (a rejected one included), an HTTP request, the selection of a
\* worker, a worker's death and the periodic timers leave the registry
\* as it was.
C16_RegistryWriters ==
    [][ /\ rooms' # rooms => QueuedInsertion \/ CloseDeletion
        /\ (\E id \in RoomIds : rooms[id] # 0 /\ rooms'[id] = 0)
              => CloseDeletion
        /\ ( \/ arrived' # arrived
             \/ http' # http
             \/ nextMediasoupWorkerIdx' # nextMediasoupWorkerIdx
             \/ exitTimers' # exitTimers
             \/ lastTick' # lastTick ) => rooms' = rooms
      ]_vars

\* Room 1 of room-A was inserted and, on its closure, deleted; after that a
\* request without peerId was refused and the status timer ticked, with
\* the registry still empty.
C16_Witness ==
    /\ Len(roomObjs) = 1
    /\ roomObjs[1].state = "closed" /\ roomObjs[1].closeHandler
    /\ rooms = [id \in RoomIds |-> 0]
    /\ last.pc = "refused" /\ last.id = 2
    /\ lastTick.timer = "status"

\* C17: a connection request that passed validation and whose unit has
\* finished was either accepted once or rejected once, never both, and no
\* queued request has been settled more than once.
C17_SettledExactlyOnce ==
    /\ last.pc = "done" => last.accepts + Len(last.rejects) = 1
    /\ \A k \in 1..Len(queue) :
          queue[k].accepts + Len(queue[k].rejects) <= 1

\* C18: a Room whose construction failed is never a registry entry, and
\* while its unit is being settled the registry has no entry for its
\* roomId; settling that unit takes it alone out of the queue, leaving the
\* following units in order with the next one free to start; and a unit
\* that starts for a roomId without an entry constructs a new Room.
C18_FailedConstructionLeavesNoEntry ==
    /\ [](\A i \in 1..Len(roomObjs) :
             roomObjs[i].state = "failed"
                 => rooms[roomObjs[i].roomId] # i)
    /\ [](\A k \in 1..Len(queue) :
             (queue[k].pc = "threw" /\ queue[k].error = ErrCreate)
                 => rooms[queue[k].roomId] = 0)
    /\ [][ /\ ( /\ queue # <<>>
                /\ queue[1].error = ErrCreate
                /\ last'.id = queue[1].id )
              => /\ queue' = Tail(queue)
                 /\ rooms'[queue[1].roomId] = 0
                 /\ queue' # <<>> => queue'[1].pc = "pending"
           /\ \A k \in 1..Len(queue) :
                 ( /\ queue[k].pc = "pending"
                   /\ Len(queue') = Len(queue)
                   /\ queue'[k].pc # "pending"
                   /\ rooms[queue[k].roomId] = 0 )
                 => /\ queue'[k].pc = "creating"
                    /\ Len(roomObjs') = Len(roomObjs) + 1
                    /\ roomObjs'[Len(roomObjs')].roomId = queue[k].roomId
         ]_vars

\* The construction of room-A failed for request 1, which was rejected;
\* the unit of request 2, also for room-A, is constructing a second Room
\* while request 3 waits behind it.
C18_Witness ==
    /\ last.id = 1 /\ last.error = ErrCreate /\ last.roomId = "room-A"
    /\ Len(roomObjs) = 2
    /\ roomObjs[1].state = "failed" /\ roomObjs[1].roomId = "room-A"
    /\ roomObjs[2].state = "constructing" /\ roomObjs[2].roomId = "room-A"
    /\ rooms["room-A"] = 0
    /\ Len(queue) = 2
    /\ queue[1].id = 2 /\ queue[1].pc = "creating" /\ queue[1].creating = 2
    /\ queue[2].pc = "pending"

\* C19: when every Room construction settles, every queued connection
\* request is eventually settled by its unit (accepted, or rejected), if
\* the process does not terminate first; and as long as the construction
\* awaited by the head unit is outstanding, no unit behind it starts or is
\* settled, whatever room it names.
C19_QueuedRequestsSettle ==
    /\ \A id \in 1..MaxRequests :
          (\E k \in 1..Len(queue) : queue[k].id = id)
              ~> \/ /\ last.id = id
                    /\ last.pc = "done"
                    /\ last.accepts = 1 \/ Len(last.rejects) = 1
                 \/ exited
    /\ [][ ( /\ queue # <<>>
             /\ queue[1].pc = "creating"
             /\ queue' # <<>>
             /\ queue'[1].pc = "creating" )
           => /\ last' = last
              /\ \A k \in 2..Len(queue) : queue'[k] = queue[k]
         ]_vars

\* Request 2, for room-B, queued behind request 1 for room-A, has been
\* accepted into its own Room with the process still running.
C19_Witness ==
    /\ ~exited
    /\ last.id = 2 /\ last.pc = "done" /\ last.roomId = "room-B"
    /\ last.accepts = 1 /\ last.rejects = <<>>
    /\ Len(roomObjs) = 2
    /\ roomObjs[1].roomId = "room-A"
    /\ queue = <<>>

\* The step in which the k-th queued unit calls handleProtooConnection.
Delegates(k) ==
    /\ queue[k].pc = "resolved"
    /\ \/ last'.id = queue[k].id /\ last'.handled # 0
       \/ /\ Len(queue') = Len(queue)
          /\ queue[k].handled = 0
          /\ queue'[k].handled # 0

====
